---- MODULE Spec2Model ----
(***************************************************************************)
(* Data Sweeper (Streamlit_app.py): the script that Streamlit runs from    *)
(* top to bottom on every interaction.  For each uploaded file it reads a  *)
(* table, offers the CSV -> Excel download, optionally cleans the table,   *)
(* restricts it to the chosen columns, coerces chosen columns to numbers   *)
(* and draws a sum chart and a date chart.                                 *)
(*                                                                         *)
(* Representation.                                                         *)
(*  - A cell is a record [k, v, s]: k is "nan" (missing: NaN/None/NaT),    *)
(*    "num" (a number), "str" (a string) or "date" (a timestamp).          *)
(*    Numbers are fixed point: v counts quarters, so that the median of    *)
(*    two whole numbers (and the median of such medians) is exact.         *)
(*  - A DataFrame is [columns, dtype, rows]: the column labels in order,   *)
(*    the dtype of every column and the rows in order, each row a          *)
(*    function from column label to cell.                                  *)
(*  - A file name is the sequence of its characters.                       *)
(***************************************************************************)
EXTENDS Integers, Sequences, FiniteSets, TLC

(***************************************************************************)
(* Bounds of the model.                                                    *)
(***************************************************************************)
\* most rows of an uploaded one-column table
MaxRows == 3
\* most rows of an uploaded two-column table
MaxWideRows == 2
\* most files of a batch of several files
MaxFiles == 2

(***************************************************************************)
(* Cells                                                                   *)
(***************************************************************************)
NaN == [k |-> "nan", v |-> 0, s |-> ""]
Num(n) == [k |-> "num", v |-> n, s |-> ""]
Str(t) == [k |-> "str", v |-> 0, s |-> t]
Date(d) == [k |-> "date", v |-> d, s |-> ""]

isna(c) == c.k = "nan"
notna(c) == ~isna(c)

\* The strings of the sample vocabulary and what the pandas parsers make
\* of them: "1e0" is a number and no date, "2021-01-05" a date and no
\* number, "abc" and "Missing" are neither.
StrVals == {"abc", "2021-01-05", "1e0"}
NumVals == {4, 8}

IsNumericStr(t) == t = "1e0"
NumericValue(t) == 4
IsDateStr(t) == t = "2021-01-05"
\* the label of the instant 2021-01-05 (its day number), apart from the
\* labels of the instants a few nanoseconds after the epoch
DateValue(t) == 18632

(***************************************************************************)
(* DataFrame helpers                                                       *)
(***************************************************************************)
Range(seq) == {seq[i] : i \in 1..Len(seq)}

nrows(df) == Len(df.rows)

\* df[col] : the cells of one column, top to bottom
Column(df, col) == [i \in 1..nrows(df) |-> df.rows[i][col]]

\* df[col] = cells (dtype dt): replaces one column, keeps the others
SetColumn(df, col, cells, dt) ==
    [df EXCEPT !.dtype = [@ EXCEPT ![col] = dt],
               !.rows = [i \in 1..nrows(df) |-> [df.rows[i] EXCEPT ![col] = cells[i]]]]

\* df.select_dtypes(include=[dt]).columns : labels in column order
RECURSIVE select_dtypes(_, _, _)
select_dtypes(df, dt, i) ==
    IF i > Len(df.columns) THEN <<>>
    ELSE (IF df.dtype[df.columns[i]] = dt THEN <<df.columns[i]>> ELSE <<>>)
         \o select_dtypes(df, dt, i + 1)

\* df.drop_duplicates(): the first occurrence of every row, in order;
\* missing cells compare equal to each other
RECURSIVE FirstOccurrences(_, _)
FirstOccurrences(rows, i) ==
    IF i > Len(rows) THEN <<>>
    ELSE (IF \E j \in 1..(i - 1) : rows[j] = rows[i] THEN <<>> ELSE <<rows[i]>>)
         \o FirstOccurrences(rows, i + 1)

drop_duplicates(df) == [df EXCEPT !.rows = FirstOccurrences(df.rows, 1)]

\* Series.median(): missing cells skipped; NaN when nothing is left; the
\* middle value, or the mean of the two middle values
median(cells) ==
    LET idx == {i \in 1..Len(cells) : notna(cells[i])}
        n == Cardinality(idx)
        Kth(k) == CHOOSE x \in {cells[i].v : i \in idx} :
                     /\ Cardinality({i \in idx : cells[i].v < x}) < k
                     /\ k <= Cardinality({i \in idx : cells[i].v <= x})
    IN  IF n = 0 THEN NaN
        ELSE IF n % 2 = 1 THEN Num(Kth((n + 1) \div 2))
        ELSE Num((Kth(n \div 2) + Kth(n \div 2 + 1)) \div 2)

\* Series.fillna(value): every missing cell becomes value
fillna(cells, value) ==
    [i \in 1..Len(cells) |-> IF isna(cells[i]) THEN value ELSE cells[i]]

\* Series.sum(): the sum of the cells that are not missing
RECURSIVE SumCells(_, _)
SumCells(cells, i) ==
    IF i > Len(cells) THEN 0
    ELSE (IF isna(cells[i]) THEN 0 ELSE cells[i].v) + SumCells(cells, i + 1)

\* to_numeric_cell as errors='ignore' would have it: what does not parse
\* is left as it is
to_numeric_cell_ignore(c) ==
    IF c.k = "str" /\ IsNumericStr(c.s) THEN Num(NumericValue(c.s)) ELSE c

\* pd.to_numeric(series, errors='coerce'): numbers stay, strings that
\* spell a number become it, everything else becomes missing
to_numeric_cell(c) ==
    IF c.k = "num" THEN c
    ELSE IF c.k = "str" /\ IsNumericStr(c.s) THEN Num(NumericValue(c.s))
    ELSE NaN

to_numeric(cells) == [i \in 1..Len(cells) |-> to_numeric_cell(cells[i])]

\* pd.to_datetime(series, errors='coerce'): a number is an offset from the
\* epoch in nanoseconds and datetime64[ns] holds whole nanoseconds, so its
\* fraction is cut off (v counts quarters: 1.5 and 1.0 are the same
\* instant); strings that spell a date become it, everything else becomes
\* missing (NaT)
to_datetime_cell(c) ==
    IF c.k = "date" THEN c
    ELSE IF c.k = "num" THEN Date(c.v \div 4)
    ELSE IF c.k = "str" /\ IsDateStr(c.s) THEN Date(DateValue(c.s))
    ELSE NaN

to_datetime(cells) == [i \in 1..Len(cells) |-> to_datetime_cell(cells[i])]

\* converted.notna().sum()
notna_sum(cells) == Cardinality({i \in 1..Len(cells) : notna(cells[i])})

(***************************************************************************)
(* File names: os.path.splitext, str.lower, str.replace                    *)
(***************************************************************************)
LowerChar(ch) ==
    CASE ch = "A" -> "a" [] ch = "C" -> "c" [] ch = "S" -> "s"
      [] ch = "V" -> "v" [] ch = "X" -> "x" [] ch = "L" -> "l"
      [] OTHER -> ch

lower(p) == [i \in 1..Len(p) |-> LowerChar(p[i])]

\* index of the last dot that has a character other than a dot before it,
\* 0 when there is none (upload names hold no path separator)
ExtDot(p) ==
    LET dots == {i \in 1..Len(p) : p[i] = "."}
        d == CHOOSE i \in dots : \A j \in dots : j <= i
    IN  IF dots # {} /\ \E j \in 1..(d - 1) : p[j] # "." THEN d ELSE 0

\* os.path.splitext(p)[-1]
splitext_ext(p) == IF ExtDot(p) = 0 THEN <<>> ELSE SubSeq(p, ExtDot(p), Len(p))

\* s.replace(old, new): every occurrence of old, left to right
RECURSIVE replace(_, _, _)
replace(p, old, new) ==
    IF Len(p) < Len(old) THEN p
    ELSE IF SubSeq(p, 1, Len(old)) = old
         THEN new \o replace(SubSeq(p, Len(old) + 1, Len(p)), old, new)
         ELSE <<Head(p)>> \o replace(Tail(p), old, new)

DotCsv == <<".", "c", "s", "v">>
DotXlsx == <<".", "x", "l", "s", "x">>

(***************************************************************************)
(* Uploads the model draws from                                            *)
(***************************************************************************)
ColA == "a"
ColB == "b"

CsvCells == {NaN} \cup {Num(n) : n \in NumVals} \cup {Str(t) : t \in StrVals}

\* dtype the reader infers for a column: numbers (and blanks) only give a
\* numeric column, anything else an object column; no rows give object
InferDtype(cells) ==
    IF Len(cells) > 0 /\ \A i \in 1..Len(cells) : cells[i].k \in {"num", "nan"}
    THEN "number" ELSE "object"

\* the columns a CSV reader can yield: a numeric column holds numbers and
\* blanks, an object column holds strings and blanks and at least one
\* string that spells no number
ReadableColumns(r) ==
    {c \in [1..r -> CsvCells] :
        \/ \A i \in 1..r : c[i].k \in {"num", "nan"}
        \/ /\ \A i \in 1..r : c[i].k \in {"str", "nan"}
           /\ \E i \in 1..r : c[i].k = "str" /\ ~IsNumericStr(c[i].s)}

MakeTable(cols, data) ==
    [columns |-> cols,
     dtype |-> [c \in Range(cols) |-> InferDtype(data[c])],
     rows |-> [i \in 1..Len(data[cols[1]]) |-> [c \in Range(cols) |-> data[c][i]]]]

TallTables ==
    {MakeTable(<<ColA>>, [c \in {ColA} |-> col]) :
        col \in UNION {ReadableColumns(r) : r \in 0..MaxRows}}

WideTables ==
    UNION {{MakeTable(<<ColA, ColB>>, data) :
               data \in [{ColA, ColB} -> ReadableColumns(r)]} : r \in 0..MaxWideRows}

Tables == TallTables \cup WideTables

SmallTable == MakeTable(<<ColA>>, [c \in {ColA} |-> <<Str("2021-01-05")>>])

FileNames ==
    { <<"a", ".", "c", "s", "v">>,
      <<"A", ".", "C", "S", "V">>,
      <<"a", ".", "c", "s", "v", ".", "c", "s", "v">>,
      <<"a", ".", "x", "l", "s", "x">>,
      <<"a", ".", "X", "L", "S", "X">>,
      <<"a", ".", "t", "x", "t">>,
      <<".", "c", "s", "v">> }

\* what the bytes of an upload are: a CSV text, a workbook, or neither
Formats == {"csv", "xlsx", "junk"}

File(n, f, t) == [name |-> n, fmt |-> f, table |-> t]

\* one well-formed upload with any table
TableBatches ==
    {<<File(<<"a", ".", "c", "s", "v">>, "csv", t)>> : t \in Tables}
    \cup {<<File(<<"a", ".", "x", "l", "s", "x">>, "xlsx", t)>> :
              t \in {u \in TallTables : nrows(u) <= MaxWideRows}}

\* one upload with any name and any content format
NameBatches == {<<File(n, f, SmallTable)>> : n \in FileNames, f \in Formats}

\* batches of several small uploads, good and bad
SmallFiles ==
    { File(<<"a", ".", "c", "s", "v">>, "csv", SmallTable),
      File(<<"A", ".", "C", "S", "V">>, "junk", SmallTable),
      File(<<"a", ".", "x", "l", "s", "x">>, "xlsx", SmallTable),
      File(<<"a", ".", "x", "l", "s", "x">>, "csv", SmallTable),
      File(<<"a", ".", "t", "x", "t">>, "csv", SmallTable) }

SmallBatches == UNION {[1..n -> SmallFiles] : n \in 0..MaxFiles}

Batches == TableBatches \cup NameBatches \cup SmallBatches

(***************************************************************************)
(* State                                                                   *)
(***************************************************************************)
VARIABLES
    uploaded_files,          \* st.file_uploader(...): the batch, in upload order
    clean_data_option,       \* st.sidebar.checkbox("Clean Data")
    chained_inplace,         \* whether df_clean[col].fillna(..., inplace=True)
                             \* writes through to df_clean: it does in pandas
                             \* without copy-on-write and acts on a temporary
                             \* with copy-on-write
    pc,                      \* the statement the script is at
    fi,                      \* position of `file` in uploaded_files
    file_ext,
    df,
    all_columns,
    selected_columns,
    columns_for_conversion,
    numeric_columns,
    sum_data,
    date_columns,
    selected_date_column,
    date_counts,
    page,                    \* the elements rendered for each file, in order
    downloads,               \* the st.download_button offered for each file
    widgets                  \* the identities of the widgets the run has made

vars == <<uploaded_files, clean_data_option, chained_inplace, pc, fi, file_ext,
          df, all_columns, selected_columns, columns_for_conversion,
          numeric_columns, sum_data, date_columns, selected_date_column,
          date_counts, page, downloads, widgets>>

None == [none |-> TRUE]

\* the names the script has not bound yet
Unbound ==
    /\ file_ext = <<>>
    /\ df = None
    /\ all_columns = <<>>
    /\ selected_columns = <<>>
    /\ columns_for_conversion = <<>>
    /\ numeric_columns = <<>>
    /\ sum_data = <<>>
    /\ date_columns = <<>>
    /\ selected_date_column = ""
    /\ date_counts = <<>>

Init ==
    /\ uploaded_files \in Batches
    /\ clean_data_option \in BOOLEAN
    /\ chained_inplace \in BOOLEAN
    /\ pc = "start"
    /\ fi = 0
    /\ Unbound
    /\ page = [i \in 1..Len(uploaded_files) |-> <<>>]
    /\ downloads = [i \in 1..Len(uploaded_files) |-> None]
    /\ widgets = {}

file == uploaded_files[fi]

\* st.<element>(...) inside the loop body: one more element under the file
Render(pg, els) == [pg EXCEPT ![fi] = @ \o els]

\* A widget without a key gets its identity from its type, its label and
\* its options; the widgets of the loop body have no key.  Making a second
\* widget with an identity the run has already made raises Streamlit's
\* duplicate-widget exception, which nothing in the script catches.
ButtonId(name) == <<"button: Convert <name> to Excel", name>>
KeepId(options) == <<"multiselect: Select columns to keep", options>>
ConversionId(options) == <<"multiselect: Select columns to convert to numeric", options>>
DateId(options) == <<"selectbox: Select a date column for visualization", options>>

\* st.button is True only in the run its click has started, so one run
\* sees at most one pressed button
ButtonValues ==
    IF \E i \in 1..Len(uploaded_files) : downloads[i] # None THEN {FALSE} ELSE BOOLEAN

\* the orders in which a multiselect can hand back a choice of options
Choices(options) ==
    {c \in UNION {[1..n -> options] : n \in 0..Cardinality(options)} :
        \A i, j \in 1..Len(c) : i # j => c[i] # c[j]}

(***************************************************************************)
(* basic_cleaning                                                          *)
(***************************************************************************)
\* df_clean[col].fillna(value, inplace=True)
FillInplace(df_clean, col, value) ==
    IF chained_inplace
    THEN SetColumn(df_clean, col, fillna(Column(df_clean, col), value), df_clean.dtype[col])
    ELSE df_clean

\* for col in numeric_cols: fill with the column's median
RECURSIVE FillNumeric(_, _, _)
FillNumeric(df_clean, numeric_cols, i) ==
    IF i > Len(numeric_cols) THEN df_clean
    ELSE LET col == numeric_cols[i]
             median_val == median(Column(df_clean, col))
         IN  FillNumeric(FillInplace(df_clean, col, median_val), numeric_cols, i + 1)

\* for col in object_cols: fill with "Missing"
RECURSIVE FillObject(_, _, _)
FillObject(df_clean, object_cols, i) ==
    IF i > Len(object_cols) THEN df_clean
    ELSE FillObject(FillInplace(df_clean, object_cols[i], Str("Missing")), object_cols, i + 1)

basic_cleaning(d) ==
    LET df_clean == drop_duplicates(d)
        filled == FillNumeric(df_clean, select_dtypes(df_clean, "number", 1), 1)
    IN  FillObject(filled, select_dtypes(filled, "object", 1), 1)

(***************************************************************************)
(* convert_df_to_excel                                                     *)
(***************************************************************************)
Blank == [k |-> "blank", v |-> 0, s |-> ""]

\* one sheet, the header row, then the rows without the index; a missing
\* cell is written as an empty one
convert_df_to_excel(d) ==
    [sheet |-> "Sheet1",
     header |-> d.columns,
     body |-> [i \in 1..nrows(d) |->
                 [j \in 1..Len(d.columns) |->
                    IF isna(d.rows[i][d.columns[j]]) THEN Blank
                    ELSE d.rows[i][d.columns[j]]]]]

(***************************************************************************)
(* The stages of the loop body                                             *)
(***************************************************************************)
\* SelectColumns that keeps the chosen columns in the dataset's own order
RECURSIVE KeepInFrameOrder(_, _, _)
KeepInFrameOrder(d, cols, i) ==
    IF i > Len(d.columns) THEN <<>>
    ELSE (IF d.columns[i] \in Range(cols) THEN <<d.columns[i]>> ELSE <<>>)
         \o KeepInFrameOrder(d, cols, i + 1)

SelectColumns_FrameOrder(d, cols) ==
    [columns |-> KeepInFrameOrder(d, cols, 1),
     dtype |-> [c \in Range(cols) |-> d.dtype[c]],
     rows |-> [i \in 1..nrows(d) |-> [c \in Range(cols) |-> d.rows[i][c]]]]

\* SelectColumns whose result is dropped: the dataset keeps all its columns
SelectColumns_Dropped(d, cols) == d

\* df[selected_columns]
SelectColumns(d, cols) ==
    [columns |-> cols,
     dtype |-> [c \in Range(cols) |-> d.dtype[c]],
     rows |-> [i \in 1..nrows(d) |-> [c \in Range(cols) |-> d.rows[i][c]]]]

\* for col in columns_for_conversion: df[col] = pd.to_numeric(df[col], errors='coerce')
RECURSIVE ConvertColumns(_, _, _)
ConvertColumns(d, cols, i) ==
    IF i > Len(cols) THEN d
    ELSE ConvertColumns(SetColumn(d, cols[i], to_numeric(Column(d, cols[i])), "number"),
                        cols, i + 1)

\* IsDateColumn with >= in place of >
IsDateColumn_AtLeastHalf(d, col) ==
    LET converted == to_datetime(Column(d, col))
    IN  2 * notna_sum(converted) >= Len(converted)

\* converted.notna().sum() > len(converted) / 2
IsDateColumn(d, col) ==
    LET converted == to_datetime(Column(d, col))
    IN  2 * notna_sum(converted) > Len(converted)

\* the scan over df.columns that collects date_columns
RECURSIVE FindDateColumns(_, _)
FindDateColumns(d, i) ==
    IF i > Len(d.columns) THEN <<>>
    ELSE (IF IsDateColumn(d, d.columns[i]) THEN <<d.columns[i]>> ELSE <<>>)
         \o FindDateColumns(d, i + 1)

\* CoerceDate that reparses every column instead of the chosen one
RECURSIVE CoerceEvery(_, _)
CoerceEvery(d, i) ==
    IF i > Len(d.columns) THEN d
    ELSE CoerceEvery(SetColumn(d, d.columns[i], to_datetime(Column(d, d.columns[i])),
                               "datetime"), i + 1)

CoerceDate_EveryColumn(d, col) == CoerceEvery(d, 1)

\* df[selected_date_column] = pd.to_datetime(df[selected_date_column], errors='coerce')
CoerceDate(d, col) == SetColumn(d, col, to_datetime(Column(d, col)), "datetime")

\* df.groupby(col).size(): the number of rows for each date of the column
GroupSize(d, col) ==
    LET cells == Column(d, col)
        keys == {cells[i].v : i \in {j \in 1..Len(cells) : notna(cells[j])}}
    IN  [key \in keys |->
           Cardinality({i \in 1..Len(cells) : notna(cells[i]) /\ cells[i].v = key})]

\* the loop moves on to the next file, or the script ends
Advance ==
    IF fi < Len(uploaded_files)
    THEN fi' = fi + 1 /\ pc' = "ingest"
    ELSE fi' = fi /\ pc' = "done"

\* if uploaded_files: ... else: st.info("Please upload a CSV or Excel file.")
Start ==
    /\ pc = "start"
    /\ IF Len(uploaded_files) > 0
       THEN fi' = 1 /\ pc' = "ingest"
       ELSE fi' = 0 /\ pc' = "done"
    /\ UNCHANGED <<uploaded_files, clean_data_option, chained_inplace, file_ext, df,
                   all_columns, selected_columns, columns_for_conversion,
                   numeric_columns, sum_data, date_columns, selected_date_column,
                   date_counts, page, downloads, widgets>>

\* pd.read_csv(file) / pd.read_excel(file): the table, or None when the
\* reader raises because the bytes are not in its format
read_csv(f) == IF f.fmt = "csv" THEN f.table ELSE None
read_excel(f) == IF f.fmt = "xlsx" THEN f.table ELSE None

\* an uncaught exception: the elements rendered so far, the exception box,
\* and the end of the run where it stands
Raise(els) ==
    /\ page' = Render(page, els \o <<"exception: duplicate widget">>)
    /\ pc' = "crashed"

\* lines 65-86: the extension decides the reader; a reader that raises and
\* an unknown extension report an error and leave df = None, which skips
\* the rest of the loop body
Ingest ==
    /\ pc = "ingest"
    /\ LET ext == lower(splitext_ext(file.name))
           read == IF ext = DotCsv THEN read_csv(file)
                   ELSE IF ext = DotXlsx THEN read_excel(file)
                   ELSE None
           report == IF ext = DotCsv
                     THEN (IF read # None THEN "success: CSV file loaded"
                           ELSE "error: reading CSV file")
                     ELSE IF ext = DotXlsx
                     THEN (IF read # None THEN "success: Excel file loaded"
                           ELSE "error: reading Excel file")
                     ELSE "error: unsupported file type"
       IN  /\ file_ext' = ext
           /\ df' = read
           /\ IF read # None
              THEN /\ page' = Render(page, <<"processing file", report, "original dataframe">>)
                   /\ pc' = "export"
                   /\ fi' = fi
              ELSE /\ page' = Render(page, <<"processing file", report>>)
                   /\ Advance
    /\ UNCHANGED <<uploaded_files, clean_data_option, chained_inplace,
                   all_columns, selected_columns, columns_for_conversion,
                   numeric_columns, sum_data, date_columns, selected_date_column,
                   date_counts, downloads, widgets>>

\* lines 89-98: for a CSV upload the convert button; when it is pressed
\* the workbook made from df and the download that carries it
Export ==
    /\ pc = "export"
    /\ IF file_ext # DotCsv
       THEN pc' = "clean" /\ UNCHANGED <<downloads, page, widgets>>
       ELSE IF ButtonId(file.name) \in widgets
       THEN Raise(<<"convert csv to excel">>) /\ UNCHANGED <<downloads, widgets>>
       ELSE /\ widgets' = widgets \cup {ButtonId(file.name)}
            /\ pc' = "clean"
            /\ \E clicked \in ButtonValues :
                 IF clicked
                 THEN /\ downloads' = [downloads EXCEPT ![fi] =
                                         [data |-> convert_df_to_excel(df),
                                          file_name |-> replace(file.name, DotCsv, DotXlsx)]]
                      /\ page' = Render(page, <<"convert csv to excel", "download button">>)
                 ELSE /\ downloads' = downloads
                      /\ page' = Render(page, <<"convert csv to excel">>)
    /\ UNCHANGED <<uploaded_files, clean_data_option, chained_inplace, fi, file_ext, df,
                   all_columns, selected_columns, columns_for_conversion,
                   numeric_columns, sum_data, date_columns, selected_date_column,
                   date_counts>>

\* lines 101-107
Clean ==
    /\ pc = "clean"
    /\ IF clean_data_option
       THEN /\ df' = basic_cleaning(df)
            /\ page' = Render(page, <<"success: cleaning applied", "cleaned dataframe">>)
       ELSE /\ df' = df
            /\ page' = Render(page, <<"info: cleaning not applied">>)
    /\ pc' = "select"
    /\ UNCHANGED <<uploaded_files, clean_data_option, chained_inplace, fi, file_ext,
                   all_columns, selected_columns, columns_for_conversion,
                   numeric_columns, sum_data, date_columns, selected_date_column,
                   date_counts, downloads, widgets>>

\* lines 110-115
Select ==
    /\ pc = "select"
    /\ all_columns' = df.columns
    /\ IF KeepId(df.columns) \in widgets
       THEN Raise(<<>>) /\ UNCHANGED <<selected_columns, df, widgets>>
       ELSE /\ widgets' = widgets \cup {KeepId(df.columns)}
            /\ pc' = "convert"
            /\ \E chosen \in Choices(Range(df.columns)) :
                 /\ selected_columns' = chosen
                 /\ IF chosen # <<>>
                    THEN /\ df' = SelectColumns(df, chosen)
                         /\ page' = Render(page, <<"dataframe after column selection">>)
                    ELSE UNCHANGED <<df, page>>
    /\ UNCHANGED <<uploaded_files, clean_data_option, chained_inplace, fi, file_ext,
                   columns_for_conversion, numeric_columns, sum_data, date_columns,
                   selected_date_column, date_counts, downloads>>

\* lines 118-127
Convert ==
    /\ pc = "convert"
    /\ IF ConversionId(df.columns) \in widgets
       THEN Raise(<<>>) /\ UNCHANGED <<columns_for_conversion, df, widgets>>
       ELSE /\ widgets' = widgets \cup {ConversionId(df.columns)}
            /\ pc' = "sum"
            /\ \E chosen \in Choices(Range(df.columns)) :
                 /\ columns_for_conversion' = chosen
                 /\ IF chosen # <<>>
                    THEN /\ df' = ConvertColumns(df, chosen, 1)
                         /\ page' = Render(page, <<"success: conversion applied",
                                                   "dataframe after conversion", "preview">>)
                    ELSE /\ df' = df
                         /\ page' = Render(page, <<"preview">>)
    /\ UNCHANGED <<uploaded_files, clean_data_option, chained_inplace, fi, file_ext,
                   all_columns, selected_columns, numeric_columns, sum_data,
                   date_columns, selected_date_column, date_counts, downloads>>

\* lines 130-137
SumVisualization ==
    /\ pc = "sum"
    /\ numeric_columns' = select_dtypes(df, "number", 1)
    /\ IF Len(numeric_columns') > 0
       THEN /\ sum_data' = [c \in Range(numeric_columns') |-> SumCells(Column(df, c), 1)]
            /\ page' = Render(page, <<"bar chart">>)
       ELSE /\ sum_data' = sum_data
            /\ page' = Render(page, <<"info: no numeric columns">>)
    /\ pc' = "date"
    /\ UNCHANGED <<uploaded_files, clean_data_option, chained_inplace, fi, file_ext, df,
                   all_columns, selected_columns, columns_for_conversion,
                   date_columns, selected_date_column, date_counts, downloads, widgets>>

\* lines 140-160, and the loop's step to the next file
DateVisualization ==
    /\ pc = "date"
    /\ date_columns' = FindDateColumns(df, 1)
    /\ IF date_columns' = <<>>
       THEN /\ UNCHANGED <<selected_date_column, df, date_counts, widgets>>
            /\ page' = Render(page, <<"info: no date columns">>)
            /\ Advance
       ELSE IF DateId(date_columns') \in widgets
       THEN /\ Raise(<<>>)
            /\ UNCHANGED <<selected_date_column, df, date_counts, widgets, fi>>
       ELSE /\ widgets' = widgets \cup {DateId(date_columns')}
            /\ \E chosen \in Range(date_columns') :
                 /\ selected_date_column' = chosen
                 /\ df' = CoerceDate(df, chosen)
                 /\ date_counts' = GroupSize(df', chosen)
                 /\ page' = Render(page, <<"line chart">>)
            /\ Advance
    /\ UNCHANGED <<uploaded_files, clean_data_option, chained_inplace, file_ext,
                   all_columns, selected_columns, columns_for_conversion,
                   numeric_columns, sum_data, downloads>>

\* any interaction runs the script again from the top, with the same
\* uploads and the checkbox as the user left it
Rerun ==
    /\ pc \in {"done", "crashed"}
    /\ clean_data_option' \in BOOLEAN
    /\ pc' = "start"
    /\ fi' = 0
    /\ file_ext' = <<>>
    /\ df' = None
    /\ all_columns' = <<>>
    /\ selected_columns' = <<>>
    /\ columns_for_conversion' = <<>>
    /\ numeric_columns' = <<>>
    /\ sum_data' = <<>>
    /\ date_columns' = <<>>
    /\ selected_date_column' = ""
    /\ date_counts' = <<>>
    /\ page' = [i \in 1..Len(uploaded_files) |-> <<>>]
    /\ downloads' = [i \in 1..Len(uploaded_files) |-> None]
    /\ widgets' = {}
    /\ UNCHANGED <<uploaded_files, chained_inplace>>

Next ==
    \/ Start
    \/ Ingest
    \/ Export
    \/ Clean
    \/ Select
    \/ Convert
    \/ SumVisualization
    \/ DateVisualization
    \/ Rerun

Spec == Init /\ [][Next]_vars

(***************************************************************************)
(* Properties                                                              *)
(***************************************************************************)
Contains(seq, e) == \E k \in 1..Len(seq) : seq[k] = e

\* the run is over, or the loop has left the file behind
Processed(i) == pc \in {"done", "crashed"} \/ (pc # "start" /\ i < fi)

\* the upload cannot be ingested: its extension is neither .csv nor .xlsx
\* (in any letter case), or the reader of its extension cannot parse it
Rejected(f) ==
    LET ext == lower(splitext_ext(f.name))
    IN  ~ \/ ext = DotCsv /\ f.fmt = "csv"
          \/ ext = DotXlsx /\ f.fmt = "xlsx"

ErrorElements ==
    {"error: reading CSV file", "error: reading Excel file", "error: unsupported file type"}

\* every stage after ingestion left its element on the page
WholePipeline(els) ==
    /\ Contains(els, "original dataframe")
    /\ Contains(els, "cleaned dataframe") \/ Contains(els, "info: cleaning not applied")
    /\ Contains(els, "preview")
    /\ Contains(els, "bar chart") \/ Contains(els, "info: no numeric columns")
    /\ Contains(els, "line chart") \/ Contains(els, "info: no date columns")
    /\ \A k \in 1..Len(els) : els[k] \notin ErrorElements

\* C1: in every batch, a file with an unsupported extension or a failing
\* parse gets exactly an error reported, yields no dataset and no later
\* stage (nor a download), and every other file, before or after it, goes
\* through the whole pipeline; the run ends only when all files are done.
\* (An exception that ends the run leaves the remaining files without
\* their pipeline.)
C1_FailuresAreScopedToTheFile ==
    /\ \A i \in 1..Len(uploaded_files) :
         Processed(i) =>
            IF Rejected(uploaded_files[i])
            THEN /\ Len(page[i]) = 2
                 /\ page[i][1] = "processing file"
                 /\ page[i][2] \in ErrorElements
                 /\ downloads[i] = None
            ELSE WholePipeline(page[i])
    /\ \A i \in 1..Len(uploaded_files) :
         (Rejected(uploaded_files[i]) /\ ((pc = "ingest" /\ fi = i + 1) \/ (pc = "done" /\ fi = i)))
            => df = None

\* the dataset has two identical rows
HasDuplicateRows(d) == \E i, j \in 1..nrows(d) : i < j /\ d.rows[i] = d.rows[j]

\* the cleaned dataset of the file at hand, as the selection stage receives it
JustCleaned == pc = "select" /\ clean_data_option

\* C2: basic_cleaning(df) has no two identical rows and no missing cell in
\* a numeric or text column, except in numeric columns without any value.
C2_CleanedHasNoDuplicatesNoMissing ==
    JustCleaned =>
        /\ ~HasDuplicateRows(df)
        /\ \A c \in Range(df.columns) :
             \/ df.dtype[c] \notin {"number", "object"}
             \/ df.dtype[c] = "number" /\ \A i \in 1..nrows(df) : isna(df.rows[i][c])
             \/ \A i \in 1..nrows(df) : notna(df.rows[i][c])

\* C3: cleaning is idempotent: cleaning the cleaned dataset changes nothing.
C3_CleaningIdempotent ==
    JustCleaned => basic_cleaning(df) = df

\* the cells of a column that parse as a date, and those that are not missing
ParsedAsDate(d, c) == {i \in 1..nrows(d) : notna(to_datetime_cell(d.rows[i][c]))}
NonMissing(d, c) == {i \in 1..nrows(d) : notna(d.rows[i][c])}

\* C4 as stated: a column is a date candidate exactly when strictly more
\* than half of its non-missing values parse as a date.
C4_OverHalfOfNonMissing ==
    [][pc = "date" =>
         \A c \in Range(df.columns) :
            (c \in Range(date_columns')) <=>
               2 * Cardinality(ParsedAsDate(df, c)) > Cardinality(NonMissing(df, c))]_vars

\* C4 amended: a column is a date candidate exactly when strictly more
\* than half of all its cells, the missing ones counted too, parse as a
\* date; exactly half does not qualify.
C4_OverHalfOfAllCells ==
    [][pc = "date" =>
         \A c \in Range(df.columns) :
            (c \in Range(date_columns')) <=>
               2 * Cardinality(ParsedAsDate(df, c)) > nrows(df)]_vars

\* a column of one date and one blank: all of its non-missing values are
\* dates, and it is no candidate
C4_Witness ==
    /\ pc = "done"
    /\ Len(uploaded_files) = 1
    /\ ~clean_data_option
    /\ uploaded_files[1].table.columns = <<ColA>>
    /\ uploaded_files[1].table.rows = <<[c \in {ColA} |-> Str("2021-01-05")], [c \in {ColA} |-> NaN]>>
    /\ columns_for_conversion = <<>>
    /\ Contains(page[1], "info: no date columns")
    /\ date_columns = <<>>

\* C5: the exported workbook holds the working dataset as the stages before
\* export (cleaning, selection, coercion) left it.
C5_ExportSerializesWorkingDataset ==
    (pc = "sum" /\ downloads[fi] # None) => downloads[fi].data = convert_df_to_excel(df)

\* C6: a non-empty selection yields exactly the requested columns in the
\* requested order with the rows unchanged; the full column set leaves the
\* dataset unchanged; the empty selection passes the dataset through.
C6_ColumnSelection ==
    [][(pc = "select" /\ pc' = "convert") =>
         LET req == selected_columns'
         IN  IF req = <<>> THEN df' = df
             ELSE /\ df'.columns = req
                  /\ nrows(df') = nrows(df)
                  /\ \A c \in Range(req) :
                       /\ df'.dtype[c] = df.dtype[c]
                       /\ \A i \in 1..nrows(df) : df'.rows[i][c] = df.rows[i][c]
                  /\ \A i \in 1..nrows(df) : DOMAIN df'.rows[i] = Range(req)
                  /\ req = df.columns => df' = df]_vars

C6_Witness ==
    /\ pc = "convert"
    /\ all_columns = <<ColA, ColB>>
    /\ selected_columns = <<ColB, ColA>>
    /\ df.columns = <<ColB, ColA>>
    /\ nrows(df) = 2

\* C7: the sum view and the scan for date candidates change nothing of the
\* dataset; choosing a date column replaces that one column by its parsed
\* dates (missing where unparseable) and leaves every other column and the
\* rows as they were; without a candidate the dataset is not changed.
C7_VisualizationFrame ==
    [][/\ pc = "sum" => df' = df
       /\ pc = "date" =>
            IF date_columns' = <<>> \/ pc' = "crashed" THEN df' = df
            ELSE LET sel == selected_date_column'
                 IN  /\ sel \in Range(df.columns)
                     /\ df'.columns = df.columns
                     /\ nrows(df') = nrows(df)
                     /\ \A i \in 1..nrows(df) :
                          /\ df'.rows[i][sel] = to_datetime_cell(df.rows[i][sel])
                          /\ df'.rows[i][sel].k \in {"date", "nan"}
                          /\ \A c \in Range(df.columns) \ {sel} :
                               df'.rows[i][c] = df.rows[i][c]
                     /\ \A c \in Range(df.columns) \ {sel} : df'.dtype[c] = df.dtype[c]]_vars

\* a date column was chosen next to a text column that also holds a date
C7_Witness ==
    /\ pc = "done"
    /\ df # None
    /\ Len(df.columns) = 2
    /\ date_columns = <<ColA, ColB>>
    /\ selected_date_column = ColA
    /\ df.dtype[ColB] = "object"
    /\ \E i \in 1..nrows(df) : df.rows[i][ColA].k = "date" /\ df.rows[i][ColB].k = "str"

\* the source name with its four-character extension replaced by .xlsx
WithXlsxExtension(name) == SubSeq(name, 1, Len(name) - Len(DotCsv)) \o DotXlsx

\* C8: a download is offered only for uploads accepted as CSV (extension
\* .csv in any letter case), and its file name is the source name with the
\* .csv extension replaced by .xlsx, the rest of the name unchanged.
C8_DownloadName ==
    \A i \in 1..Len(uploaded_files) :
        downloads[i] # None =>
            /\ lower(splitext_ext(uploaded_files[i].name)) = DotCsv
            /\ downloads[i].file_name = WithXlsxExtension(uploaded_files[i].name)

\* C9: coercion leaves only numbers and missing cells in the coerced
\* columns, leaves the other columns unchanged, and gives the same dataset
\* in whatever order the target columns are coerced.
C9_NumericCoercion ==
    [][(pc = "convert" /\ pc' = "sum") =>
         LET targets == columns_for_conversion'
         IN  /\ df'.columns = df.columns
             /\ nrows(df') = nrows(df)
             /\ \A c \in Range(targets) : \A i \in 1..nrows(df) :
                  /\ df'.rows[i][c].k \in {"num", "nan"}
                  /\ df.rows[i][c].k = "num" => df'.rows[i][c] = df.rows[i][c]
             /\ \A c \in Range(df.columns) \ Range(targets) :
                  /\ df'.dtype[c] = df.dtype[c]
                  /\ \A i \in 1..nrows(df) : df'.rows[i][c] = df.rows[i][c]
             /\ \A order \in Choices(Range(targets)) :
                  Range(order) = Range(targets) => ConvertColumns(df, order, 1) = df']_vars

\* two columns were coerced, one with a string that spells a number and
\* one with a string that spells none
C9_Witness ==
    /\ pc = "sum"
    /\ Len(columns_for_conversion) = 2
    /\ ~clean_data_option
    /\ selected_columns = <<ColA, ColB>>
    /\ \E i \in 1..nrows(df) :
         /\ uploaded_files[1].table.rows[i][ColA] = Str("1e0")
         /\ df.rows[i][ColA] = Num(4)
         /\ uploaded_files[1].table.rows[i][ColB] = Str("abc")
         /\ df.rows[i][ColB] = NaN

\* the file at hand has been through the date stage
DateStageDone == df # None /\ ((pc = "done") \/ (pc = "ingest" /\ fi > 1))

\* C10: the selection is within all_columns, the dataset after selection
\* has only columns of all_columns, and the columns coerced and the columns
\* offered and chosen for the date chart are columns of the dataset after
\* selection: a deselected column is never coerced or charted.
C10_ColumnSetsNest ==
    /\ pc \in {"convert", "sum", "date"} =>
         /\ Range(selected_columns) \subseteq Range(all_columns)
         /\ Range(df.columns) \subseteq Range(all_columns)
         /\ selected_columns # <<>> => df.columns = selected_columns
    /\ pc \in {"sum", "date"} =>
         /\ Range(columns_for_conversion) \subseteq Range(df.columns)
         /\ selected_columns # <<>> =>
              Range(columns_for_conversion) \subseteq Range(selected_columns)
    /\ DateStageDone =>
         /\ Range(date_columns) \subseteq Range(df.columns)
         /\ Range(df.columns) \subseteq Range(all_columns)
         /\ date_columns # <<>> =>
              /\ selected_date_column \in Range(date_columns)
              /\ selected_columns # <<>> => selected_date_column \in Range(selected_columns)

\* one of two columns was deselected; the other was coerced and charted
C10_Witness ==
    /\ pc = "done"
    /\ df # None
    /\ all_columns = <<ColA, ColB>>
    /\ selected_columns = <<ColB>>
    /\ columns_for_conversion = <<ColB>>
    /\ date_columns = <<ColB>>
    /\ selected_date_column = ColB

====
